---------------------------- MODULE Spec2Model ----------------------------
(***************************************************************************)
(* TR4CK time tracker: the App component (src/src/App.jsx), its            *)
(* LoginScreen, and the state endpoints of the backend                     *)
(* (src/server/index.js).                                                  *)
(*                                                                         *)
(* Conventions of the model                                                *)
(*   - ids made by makeId are fresh naturals >= 1 (the code's ids are      *)
(*     non-empty strings, hence truthy); NoId stands for null.             *)
(*   - a value that may be null/absent is a sequence of length 0 or 1.     *)
(*   - hours are hundredths of an hour (4.5 h = 450), rates whole dollars. *)
(*   - dates are day numbers: order and equality of the fixed-width ISO    *)
(*     strings of the code.                                                *)
(*   - a handler is one action: the state updates it makes and the         *)
(*     effects React runs for them (auth flag, load, save, selection).     *)
(*   - setTimeout runs on the event loop's timer clock (Elapse) and        *)
(*     Date.now() reads the wall clock (Advance); the two are separate     *)
(*     clocks in the browser and are advanced by separate actions.         *)
(***************************************************************************)
EXTENDS Integers, Sequences, FiniteSets, TLC

VARIABLES
    expectedUser,     \* VITE_LOGIN_USER || ""
    expectedPass,     \* VITE_LOGIN_PASS || ""
    authStored,       \* localStorage[AUTH_KEY]: <<>> (absent) or <<"true"|"false">>
    lockStored,       \* localStorage[AUTH_LOCK_KEY]: <<>> (absent) or <<timestamp>>
    now,              \* Date.now(), ms
    isAuthed,         \* App state
    state,            \* App state: the Document
    isLoadingState,   \* App state
    stateError,       \* App state
    hasLoaded,        \* hasLoadedRef.current
    saveTimeout,      \* the pending save timer: <<>> or <<[remaining, body]>>
    activeProjectId,  \* App state
    confirmOpen,      \* App state
    confirmProject,   \* App state: <<>> (null) or <<project>>
    nextId,           \* the next id makeId returns
    defaultState,     \* the Document built when the page's module loads
    lockUntil,        \* LoginScreen state (0 while the screen is not mounted)
    failedAttempts,   \* LoginScreen failedAttemptsRef.current
    loginError,       \* LoginScreen state: error
    loads,            \* GET /api/state calls in flight, by slot
    puts,             \* PUT /api/state calls in flight, by slot
    store,            \* app_state row 1: <<>> (no row) or <<data>>
    sinceChange,      \* history: ms since the Document was last replaced (capped)
    edited,           \* history: the Document was replaced in this loaded session
    putsSinceChange,  \* history: PUTs issued since the Document was last replaced
    lastPut,          \* history: body of the last PUT issued, <<>> if none
    burst,            \* history: replacements in the current burst, capped at 2
    streak,           \* history: mismatching submissions in a row at this gate
    gateEvent,        \* history: what the auth gate did last
    lastLock,         \* history: until of the last lockout, 0 if none
    summaryRange,     \* App state: "all", "week" or "today"
    download,         \* the file downloadCsv was last called with: <<>> or <<file>>
    fallbackRate,     \* history: ids of the projects whose rate was never set
    sessionLoaded,    \* history: a GET of this session has completed successfully
    editingDate,      \* CalendarView state: <<>> (null) or <<dateKey>>
    draftHours,       \* CalendarView state: the text of the cell editor
    mode,             \* CalendarView state: "week" or "month"
    viewDate,         \* CalendarView state: the reference date of the grid
    view,             \* App state: "calendar" or "rows"
    localToday        \* the local date of new Date() (Today is the UTC date)

vars == <<expectedUser, expectedPass, authStored, lockStored, now, isAuthed,
          state, isLoadingState, stateError, hasLoaded, saveTimeout,
          activeProjectId, confirmOpen, confirmProject, nextId, defaultState, lockUntil,
          failedAttempts, loginError, loads, puts, store, sinceChange, edited,
          putsSinceChange, lastPut, burst, streak, gateEvent, lastLock,
          summaryRange, download, fallbackRate, sessionLoaded, editingDate,
          draftHours, mode, viewDate, view, localToday>>

---------------------------------------------------------------------------
(* Bounds of the model *)

MaxProjects == 3      \* projects in the Document
MaxEntries == 2       \* entries in one project
MaxIds == 6           \* ids makeId hands out, over all page loads
MaxLoads == 2         \* GET calls in flight
MaxPuts == 2          \* PUT calls in flight
MaxNow == 60000       \* the wall clock stops here

(* Program constants *)

SaveDelay == 500            \* setTimeout(..., 500)
LockMs == 30 * 1000         \* now + 30 * 1000
MaxFailedAttempts == 5      \* failedAttemptsRef.current >= 5
NoId == 0                   \* null project id
Today == 5                  \* new Date().toISOString().slice(0, 10)
DefaultRate == 85
DefaultHours == 450         \* 4.5
NewEntryHours == 100        \* hours: 1

StorageUnavailable == "Storage unavailable. Working locally."
FailedToSync == "Failed to sync. Changes will retry."
TooManyAttempts == "Too many attempts. Try again shortly."
InvalidCredentials == "Invalid credentials. Try again."

---------------------------------------------------------------------------
(* Helpers *)

Min(a, b) == IF a < b THEN a ELSE b

\* history: the length of the burst a replacement of the Document made now
\* belongs to
nextBurst == IF sinceChange < SaveDelay THEN Min(2, burst + 1) ELSE 1

---------------------------------------------------------------------------
(* The Document *)

\* defaultState as the module builds it when makeId returns firstId and then
\* firstId + 1: every id makeId returns is new, on this page and on every
\* page before it
newDefaultState(firstId) ==
    [profile |-> [name |-> "", rate |-> DefaultRate],
     projects |->
        << [id |-> firstId, name |-> "Atlas redesign", rate |-> DefaultRate,
            archived |-> FALSE,
            entries |-> << [id |-> firstId + 1, date |-> Today,
                            hours |-> DefaultHours] >>] >>]

\* the first id makeId returns on a page after its defaultState was built
FirstFreeId == defaultState.projects[1].entries[1].id + 1

\* normalizeState(value)
normalizeState(value) ==
    IF "profile" \notin DOMAIN value \/ "projects" \notin DOMAIN value
    THEN defaultState
    ELSE [value EXCEPT !.projects =
            [i \in 1..Len(value.projects) |->
                LET project == value.projects[i] IN
                [rate |-> IF "rate" \in DOMAIN project THEN project.rate
                          ELSE IF "rate" \in DOMAIN value.profile
                               THEN value.profile.rate
                               ELSE 0,
                 archived |-> IF "archived" \in DOMAIN project
                              THEN project.archived ELSE FALSE,
                 entries |-> IF "entries" \in DOMAIN project
                             THEN project.entries ELSE << >>] @@ project]]

\* state.projects.filter((project) => !project.archived)
activeProjects(projects) == SelectSeq(projects, LAMBDA project : ~project.archived)

\* state.projects.filter((project) => project.archived)
archivedProjects(projects) == SelectSeq(projects, LAMBDA project : project.archived)

ProjectIds(projects) == {projects[i].id : i \in 1..Len(projects)}

\* the updater of updateProfile(updates)
updateProfile(prev, updates) ==
    [prev EXCEPT !.profile = updates @@ prev.profile]

\* the updater of updateProject(projectId, updates)
updateProject(prev, projectId, updates) ==
    [prev EXCEPT !.projects =
        [i \in 1..Len(prev.projects) |->
            IF prev.projects[i].id = projectId
            THEN updates @@ prev.projects[i]
            ELSE prev.projects[i]]]

\* the project addProject() builds: id from makeId, rate from state.profile.rate
newProject(id, profileRate) ==
    [id |-> id, name |-> "Untitled project", rate |-> profileRate,
     archived |-> FALSE, entries |-> << >>]

\* the updater of addProject()
addProject(prev, project) ==
    [prev EXCEPT !.projects = Append(prev.projects, project)]

\* removeProject that also drops the entries of the projects it keeps
removeProjectAndEntries(prev, projectId) ==
    [prev EXCEPT !.projects =
        [i \in 1..Len(SelectSeq(prev.projects, LAMBDA project : project.id # projectId)) |->
            [SelectSeq(prev.projects, LAMBDA project : project.id # projectId)[i]
                EXCEPT !.entries = << >>]]]

\* the updater of removeProject(projectId)
removeProject(prev, projectId) ==
    [prev EXCEPT !.projects =
        SelectSeq(prev.projects, LAMBDA project : project.id # projectId)]

\* archiveProject(projectId) and restoreProject(projectId)
archiveProject(prev, projectId) ==
    updateProject(prev, projectId, [archived |-> TRUE])

restoreProject(prev, projectId) ==
    updateProject(prev, projectId, [archived |-> FALSE])

\* the entry addEntry() builds
newEntry(id) == [id |-> id, date |-> Today, hours |-> NewEntryHours]

\* the updater of addEntry(projectId)
addEntry(prev, projectId, entry) ==
    [prev EXCEPT !.projects =
        [i \in 1..Len(prev.projects) |->
            IF prev.projects[i].id = projectId
            THEN [prev.projects[i] EXCEPT !.entries = Append(@, entry)]
            ELSE prev.projects[i]]]

\* the updater of removeEntry(projectId, entryId)
removeEntry(prev, projectId, entryId) ==
    [prev EXCEPT !.projects =
        [i \in 1..Len(prev.projects) |->
            IF prev.projects[i].id = projectId
            THEN [prev.projects[i] EXCEPT !.entries =
                    SelectSeq(@, LAMBDA entry : entry.id # entryId)]
            ELSE prev.projects[i]]]

\* a JavaScript number that may be NaN or infinite: << >> when it is not
\* finite, <<n>> otherwise (hours in hundredths)
NaN == << >>

\* Number(text) for the texts a form field hands over
Number(text) ==
    CASE text = "" -> <<0>>
      [] text = "0" -> <<0>>
      [] text = "3" -> <<300>>
      [] text = "-2" -> <<-200>>
      [] text = "4.5" -> <<450>>
      [] text = "2" -> <<200>>
      [] text = "1.5" -> <<150>>
      [] text = "1" -> <<100>>
      [] text = "1e999" -> NaN
      [] OTHER -> NaN

\* Number.isFinite(value)
isFinite(value) == value # NaN

\* the entries of a list that carry the date
EntriesOn(entries, date) == SelectSeq(entries, LAMBDA entry : entry.date = date)

\* the projects of a list that carry the id
ProjectsById(projects, projectId) ==
    SelectSeq(projects, LAMBDA project : project.id = projectId)

\* the updater of updateEntry(projectId, entryId, updates)
updateEntry(prev, projectId, entryId, updates) ==
    [prev EXCEPT !.projects =
        [i \in 1..Len(prev.projects) |->
            IF prev.projects[i].id = projectId
            THEN [prev.projects[i] EXCEPT !.entries =
                    [k \in 1..Len(@) |->
                        IF @[k].id = entryId THEN updates @@ @[k] ELSE @[k]]]
            ELSE prev.projects[i]]]

\* the project the updater of setEntryHours returns for the project with the
\* id, lines 397-416: nextHours is finite; id is what makeId returns
setProjectEntryHours(project, date, nextHours, id) ==
    LET found == EntriesOn(project.entries, date) IN
    IF found # << >>
    THEN LET existing == found[1] IN
         IF nextHours <= 0
         THEN [project EXCEPT !.entries =
                 SelectSeq(@, LAMBDA entry : entry.id # existing.id)]
         ELSE [project EXCEPT !.entries =
                 [k \in 1..Len(@) |->
                     IF @[k].id = existing.id
                     THEN [@[k] EXCEPT !.hours = nextHours] ELSE @[k]]]
    ELSE IF nextHours <= 0 THEN project
         ELSE [project EXCEPT !.entries =
                 Append(@, [id |-> id, date |-> date, hours |-> nextHours])]

\* the updater of setEntryHours(projectId, date, hoursValue), for a finite
\* hoursValue
setEntryHours(prev, projectId, date, nextHours, id) ==
    [prev EXCEPT !.projects =
        [i \in 1..Len(prev.projects) |->
            IF prev.projects[i].id # projectId THEN prev.projects[i]
            ELSE setProjectEntryHours(prev.projects[i], date, nextHours, id)]]

\* setEntryHours calls makeId: the project is there, has no entry for the
\* date, and the hours are positive
setEntryHoursMakesId(prev, projectId, date, nextHours) ==
    \E i \in 1..Len(prev.projects) :
        /\ prev.projects[i].id = projectId
        /\ EntriesOn(prev.projects[i].entries, date) = << >>
        /\ nextHours > 0

---------------------------------------------------------------------------
(* Effects *)

\* selectionEffect that falls back to the last active project
selectionEffectLast(projects, activeId) ==
    LET act == SelectSeq(projects, LAMBDA project : ~project.archived) IN
    IF \E i \in 1..Len(act) : act[i].id = activeId THEN activeId
    ELSE IF Len(act) > 0 THEN act[Len(act)].id
    ELSE NoId

\* the active project effect, lines 247-252: the selection once it has settled
\* (a second run finds the id it just set, or sets null again)
selectionEffect(projects, activeId) ==
    LET act == activeProjects(projects) IN
    IF \E i \in 1..Len(act) : act[i].id = activeId THEN activeId
    ELSE IF Len(act) > 0 THEN act[1].id
    ELSE NoId

\* the CalendarView is rendered while activeProject is defined (and the view
\* is the calendar), lines 657-782. A render that commits with the selected
\* id (the one the handler asked for) not among the active projects of the
\* new Document unmounts it, also when the selection effect picks another
\* project right after: its state is gone, and a new mount starts in week
\* mode on the local date of today, with no cell in edit
calendarEffect(selected) ==
    LET unmounted == activeProjectId' = NoId \/ activeProjectId' # selected IN
    /\ editingDate' = IF unmounted THEN << >> ELSE editingDate
    /\ draftHours' = IF unmounted THEN "" ELSE draftHours
    /\ mode' = IF unmounted THEN "week" ELSE mode
    /\ viewDate' = IF unmounted THEN localToday ELSE viewDate

\* the save effect, lines 221-245, run for a new state or isAuthed: its cleanup
\* has cleared the pending timer, and it sets a new one when the guard passes
saveEffect(authed, loaded, doc) ==
    IF ~authed \/ ~loaded THEN << >>
    ELSE << [remaining |-> SaveDelay, body |-> doc] >>

\* getInitialAuth(): localStorage.getItem(AUTH_KEY) === "true"
getInitialAuth(stored) == stored = <<"true">>

\* authRequired
authRequired == expectedUser # "" \/ expectedPass # ""

\* isLocked with the comparison turned around
isLockedInverted(until, t) == until # 0 /\ t > until

\* lockUntil && now < lockUntil, line 1052
isLocked(until, t) == until # 0 /\ t < until

\* credentialsMatch without the rule that an empty expected value matches
credentialsMatchStrict(username, password) ==
    username = expectedUser /\ password = expectedPass

\* userOk && passOk, lines 1056-1058: an empty expected value always matches
credentialsMatch(username, password) ==
    LET userOk == IF expectedUser # "" THEN username = expectedUser ELSE TRUE
        passOk == IF expectedPass # "" THEN password = expectedPass ELSE TRUE
    IN userOk /\ passOk

\* lockoutReached with > for >=
lockoutReachedLate(failed) == failed > MaxFailedAttempts

\* failedAttemptsRef.current >= 5, line 1065
lockoutReached(failed) == failed >= MaxFailedAttempts

\* authFlag that is only ever set, never cleared
authFlagOnlySet(authed) == <<"true">>

\* the auth flag effect, lines 181-183
authFlag(authed) == IF authed THEN <<"true">> ELSE <<"false">>

\* an initial lockUntil that does not read localStorage
initialLockUntilFresh(stored) == 0

\* LoginScreen's initial lockUntil: stored ? Number(stored) : 0
initialLockUntil(stored) == IF stored = << >> THEN 0 ELSE stored[1]

---------------------------------------------------------------------------
(* Requests in flight *)

\* a GET: st is "sent", "ok" (a 200 with data: the row's data or null) or
\* "err" (a non-2xx answer or a rejected fetch); active is the isActive flag of
\* the loadState call that made it
FreeLoad == [st |-> "free", active |-> FALSE, data |-> << >>]

\* a PUT: st is "sent", "ok" (2xx), "http_err" (non-2xx) or "net_err" (fetch
\* rejected); body is the state sent
FreePut == [st |-> "free", body |-> << >>]

LoadSlots == 1..MaxLoads
PutSlots == 1..MaxPuts

FreeLoadSlots == {i \in LoadSlots : loads[i].st = "free"}
FreePutSlots == {i \in PutSlots : puts[i].st = "free"}

\* the slot a new request takes
FirstFree(slots) == CHOOSE i \in slots : \A j \in slots : i <= j

\* the load effect's cleanup, lines 216-218: isActive = false
deactivate(ls) == [i \in DOMAIN ls |-> [ls[i] EXCEPT !.active = FALSE]]

\* the load effect, lines 185-215, for isAuthed = true: a GET is sent
startLoad(ls) ==
    [ls EXCEPT ![FirstFree({i \in DOMAIN ls : ls[i].st = "free"})] =
        [st |-> "sent", active |-> TRUE, data |-> << >>]]

---------------------------------------------------------------------------
(* Derived views *)

\* the date of an entry whose date field was cleared: the empty string, which
\* sorts before every date and parses to an invalid Date
NoDate == 0

\* Date.getDay() of a day number: 0 is Sunday
getDay(date) == date % 7

\* rangeStart and rangeEnd of the summary range, lines 138-160: << >> is null
rangeStartOf(range) ==
    IF range = "today" THEN <<localToday>>
    ELSE IF range = "week" THEN <<localToday - ((getDay(localToday) + 6) % 7)>>
    ELSE << >>

rangeEndOf(range) ==
    IF range = "today" THEN <<localToday>>
    ELSE IF range = "week" THEN <<rangeStartOf(range)[1] + 6>>
    ELSE << >>

\* isInRange(dateString), lines 162-168, under a summary range: an invalid
\* Date compares false with every bound
isInRangeOf(range, date) ==
    IF rangeStartOf(range) = << >> \/ rangeEndOf(range) = << >> THEN TRUE
    ELSE /\ date # NoDate
         /\ date >= rangeStartOf(range)[1]
         /\ date <= rangeEndOf(range)[1]

\* Number(entry.hours || 0) for the finite hours an entry holds
hoursNumber(hours) == IF hours = 0 THEN 0 ELSE hours

\* sumHours(entries), lines 50-51
RECURSIVE sumHours(_)
sumHours(entries) ==
    IF entries = << >> THEN 0
    ELSE sumHours(SubSeq(entries, 1, Len(entries) - 1))
         + hoursNumber(entries[Len(entries)].hours)

\* getProjectHours(entries), lines 173-179, under a summary range
RECURSIVE projectHoursOf(_, _)
projectHoursOf(range, entries) ==
    IF entries = << >> THEN 0
    ELSE LET total == projectHoursOf(range, SubSeq(entries, 1, Len(entries) - 1))
             entry == entries[Len(entries)]
         IN IF ~isInRangeOf(range, entry.date) THEN total
            ELSE total + hoursNumber(entry.hours)

\* getProjectHours(entries) as the render computes it
getProjectHours(entries) == projectHoursOf(summaryRange, entries)

\* getProjectRate(project), lines 170-171
getProjectRate(project) ==
    IF "rate" \in DOMAIN project THEN project.rate
    ELSE IF "rate" \in DOMAIN state.profile THEN state.profile.rate
    ELSE 0

\* totals.totalHours, lines 274-277
RECURSIVE totalHoursOf(_)
totalHoursOf(projects) ==
    IF projects = << >> THEN 0
    ELSE totalHoursOf(SubSeq(projects, 1, Len(projects) - 1))
         + getProjectHours(projects[Len(projects)].entries)

\* totals.earned, lines 278-282: hundredths of an hour times dollars
RECURSIVE earnedOf(_)
earnedOf(projects) ==
    IF projects = << >> THEN 0
    ELSE earnedOf(SubSeq(projects, 1, Len(projects) - 1))
         + getProjectHours(projects[Len(projects)].entries)
           * getProjectRate(projects[Len(projects)])

\* totals, lines 273-287
totals ==
    [totalHours |-> totalHoursOf(activeProjects(state.projects)),
     earned |-> earnedOf(activeProjects(state.projects))]

\* the months the calendar is navigated through, as Date computes them: day
\* number 1 is a Monday and the first of a month of 31 days (Today is its
\* fifth, a Friday), followed by a month of 29 and one of 31 days
MonthStarts == <<1, 32, 61>>
MonthLengths == <<31, 29, 31>>
Months == 1..Len(MonthStarts)
LastViewDay == MonthStarts[Len(MonthStarts)] + MonthLengths[Len(MonthStarts)] - 1

\* date.getMonth() (with the year) of a day number
getMonth(date) ==
    CHOOSE m \in Months :
        date >= MonthStarts[m] /\ date < MonthStarts[m] + MonthLengths[m]

\* weekDays, line 106
weekDays == <<"Sun", "Mon", "Tue", "Wed", "Thu", "Fri", "Sat">>

\* getMonthDays(date), lines 90-104: << >> is a null placeholder
getMonthDays(date) ==
    LET firstDay == MonthStarts[getMonth(date)]
        startWeekday == getDay(firstDay)
        daysInMonth == MonthLengths[getMonth(date)]
    IN [i \in 1..startWeekday |-> << >>]
       \o [day \in 1..daysInMonth |-> <<firstDay + day - 1>>]

\* getWeekStart(date), lines 1136-1140
getWeekStart(date) ==
    LET dayOfWeek == getDay(date)
        daysSinceMonday == (dayOfWeek + 6) % 7
    IN date - daysSinceMonday

\* weekDaysList, lines 1142-1149
weekDaysList ==
    [index \in 1..7 |-> <<getWeekStart(viewDate) + (index - 1)>>]

\* the cells the grid renders after the day labels, line 1233
gridCells == IF mode = "month" THEN getMonthDays(viewDate) ELSE weekDaysList

\* the columns of the calendar grid (the style sheet's .calendar-grid)
GridColumns == 7

\* the column of the grid in which the n-th child of .calendar-grid sits:
\* the children fill the rows from left to right
gridColumn(n) == ((n - 1) % GridColumns) + 1

---------------------------------------------------------------------------
(* Inputs *)

Configs == {<<"", "">>, <<"admin", "secret">>, <<"", "secret">>}
Usernames == {"admin", "guest"}
Passwords == {"secret", "wrong"}

\* the local date of the browser: the UTC date, or the day before or after
LocalDates == {Today - 1, Today, Today + 1}

\* a Document saved by an earlier page load (its ids are not this page's)
savedState ==
    [profile |-> [name |-> "Ann", rate |-> 100],
     projects |->
        << [id |-> 91, name |-> "Old site", rate |-> 100, archived |-> TRUE,
            entries |-> << [id |-> 92, date |-> 3, hours |-> 200] >>],
           [id |-> 93, name |-> "Atlas redesign", rate |-> 85, archived |-> FALSE,
            entries |-> << [id |-> 94, date |-> Today, hours |-> 150] >>] >>]

InitialStores == {<< >>, <<savedState>>}

---------------------------------------------------------------------------
(* Page load *)

\* the App and LoginScreen state after mount and its first effects, for the
\* isAuthed the page starts with
PageLoaded(authed) ==
    /\ isAuthed' = authed
    /\ authStored' = authFlag(authed)
    /\ nextId + 1 <= MaxIds
    /\ defaultState' = newDefaultState(nextId)
    /\ state' = normalizeState(defaultState')
    /\ isLoadingState' = TRUE
    /\ stateError' = ""
    /\ hasLoaded' = FALSE
    /\ saveTimeout' = << >>
    /\ activeProjectId' = selectionEffect(defaultState'.projects,
                                          defaultState'.projects[1].id)
    /\ confirmOpen' = FALSE
    /\ confirmProject' = << >>
    /\ nextId' = nextId + 2
    /\ lockUntil' = IF authed THEN 0 ELSE initialLockUntil(lockStored)
    /\ failedAttempts' = 0
    /\ loginError' = ""
    /\ loads' = IF authed THEN startLoad([i \in LoadSlots |-> FreeLoad])
                ELSE [i \in LoadSlots |-> FreeLoad]
    /\ puts' = [i \in PutSlots |-> FreePut]
    /\ sinceChange' = SaveDelay
    /\ burst' = 0
    /\ edited' = FALSE
    /\ putsSinceChange' = 0
    /\ lastPut' = << >>
    /\ streak' = 0
    /\ gateEvent' = "reload"
    /\ lastLock' = lastLock
    /\ summaryRange' = "all"
    /\ download' = << >>
    /\ fallbackRate' = {}
    /\ sessionLoaded' = FALSE
    /\ editingDate' = << >>
    /\ draftHours' = ""
    /\ mode' = "week"
    /\ viewDate' = localToday
    /\ view' = "calendar"
    /\ localToday' = localToday

\* the first page load of a fresh browser profile (localStorage empty), for a
\* build configuration, a store content and a local date: the state after
\* mount and its first effects
BootAt(configs, stores, locals) ==
    /\ \E c \in configs : expectedUser = c[1] /\ expectedPass = c[2]
    /\ authStored = IF authRequired THEN <<"false">> ELSE <<"true">>
    /\ lockStored = << >>
    /\ now = 0
    /\ store \in stores
    /\ isAuthed = ~authRequired
    /\ defaultState = newDefaultState(1)
    /\ state = normalizeState(defaultState)
    /\ isLoadingState = TRUE
    /\ stateError = ""
    /\ hasLoaded = FALSE
    /\ saveTimeout = << >>
    /\ activeProjectId = defaultState.projects[1].id
    /\ confirmOpen = FALSE
    /\ confirmProject = << >>
    /\ nextId = FirstFreeId
    /\ lockUntil = 0
    /\ failedAttempts = 0
    /\ loginError = ""
    /\ loads = IF authRequired THEN [i \in LoadSlots |-> FreeLoad]
               ELSE startLoad([i \in LoadSlots |-> FreeLoad])
    /\ puts = [i \in PutSlots |-> FreePut]
    /\ sinceChange = SaveDelay
    /\ burst = 0
    /\ edited = FALSE
    /\ putsSinceChange = 0
    /\ lastPut = << >>
    /\ streak = 0
    /\ gateEvent = "boot"
    /\ lastLock = 0
    /\ summaryRange = "all"
    /\ download = << >>
    /\ fallbackRate = {}
    /\ sessionLoaded = FALSE
    /\ editingDate = << >>
    /\ draftHours = ""
    /\ mode = "week"
    /\ localToday \in locals
    /\ viewDate = localToday
    /\ view = "calendar"

\* the first page load in a time zone whose date is the UTC date
Boot(configs, stores) == BootAt(configs, stores, {Today})

\* the page is reloaded: the App mounts again, localStorage and the store stay,
\* the calls in flight are aborted with the page
Reload ==
    /\ PageLoaded(IF authRequired THEN getInitialAuth(authStored) ELSE TRUE)
    /\ UNCHANGED <<expectedUser, expectedPass, lockStored, now, store>>

---------------------------------------------------------------------------
(* Auth gate *)

\* LoginScreen.handleSubmit with the form holding (username, password), and on
\* success the effects of setIsAuthed(true): the flag is stored, a load
\* starts, the save effect runs, the LoginScreen unmounts
Submit(username, password) ==
    /\ ~isAuthed
    /\ IF isLocked(lockUntil, now)
       THEN /\ loginError' = TooManyAttempts
            /\ gateEvent' = "rejected"
            /\ UNCHANGED <<isAuthed, authStored, lockStored, lockUntil,
                           failedAttempts, loads, isLoadingState, stateError,
                           saveTimeout, streak, lastLock>>
       ELSE IF credentialsMatch(username, password)
            THEN /\ FreeLoadSlots # {}
                 /\ failedAttempts' = 0
                 /\ lockStored' = << >>
                 /\ isAuthed' = TRUE
                 /\ lockUntil' = 0
                 /\ loginError' = ""
                 /\ authStored' = authFlag(TRUE)
                 /\ loads' = startLoad(loads)
                 /\ isLoadingState' = TRUE
                 /\ stateError' = ""
                 /\ saveTimeout' = saveEffect(TRUE, hasLoaded, state)
                 /\ streak' = 0
                 /\ gateEvent' = "authenticated"
                 /\ UNCHANGED lastLock
            ELSE IF lockoutReached(failedAttempts + 1)
            THEN /\ lockUntil' = now + LockMs
                 /\ lockStored' = <<now + LockMs>>
                 /\ failedAttempts' = 0
                 /\ loginError' = TooManyAttempts
                 /\ streak' = 0
                 /\ gateEvent' = "lockout"
                 /\ lastLock' = now + LockMs
                 /\ UNCHANGED <<isAuthed, authStored, loads, isLoadingState,
                                stateError, saveTimeout>>
            ELSE /\ failedAttempts' = failedAttempts + 1
                 /\ loginError' = InvalidCredentials
                 /\ streak' = streak + 1
                 /\ gateEvent' = "mismatch"
                 /\ UNCHANGED <<isAuthed, authStored, lockStored, lockUntil, loads,
                                isLoadingState, stateError, saveTimeout,
                                lastLock>>
    /\ UNCHANGED <<expectedUser, expectedPass, now, state, hasLoaded,
                   activeProjectId, confirmOpen, confirmProject, nextId, defaultState, puts,
                   store, sinceChange, burst, edited, putsSinceChange, lastPut>>
    /\ UNCHANGED <<summaryRange, download, fallbackRate>>
    /\ sessionLoaded' = IF isAuthed' THEN FALSE ELSE sessionLoaded
    /\ UNCHANGED <<editingDate, draftHours, mode, viewDate, view, localToday>>

\* the Log out button, setIsAuthed(false), and its effects: the flag is
\* stored, the load in flight is marked stale, the pending save is cleared,
\* and the LoginScreen mounts
Logout ==
    /\ isAuthed
    /\ authRequired
    /\ isAuthed' = FALSE
    /\ authStored' = authFlag(FALSE)
    /\ loads' = deactivate(loads)
    /\ saveTimeout' = << >>
    /\ lockUntil' = initialLockUntil(lockStored)
    /\ failedAttempts' = 0
    /\ loginError' = ""
    /\ edited' = FALSE
    /\ putsSinceChange' = 0
    /\ streak' = 0
    /\ gateEvent' = "logout"
    /\ UNCHANGED <<expectedUser, expectedPass, lockStored, now, state,
                   isLoadingState, stateError, hasLoaded, activeProjectId,
                   confirmOpen, confirmProject, nextId, defaultState, puts, store,
                   sinceChange, burst,
                   lastPut, lastLock>>
    /\ UNCHANGED <<summaryRange, download, fallbackRate>>
    /\ sessionLoaded' = FALSE
    /\ editingDate' = << >>
    /\ draftHours' = ""
    /\ mode' = "week"
    /\ viewDate' = localToday
    /\ UNCHANGED <<view, localToday>>

\* the wall clock moves on
ClockSteps == {15000, 30000}

Advance(d) ==
    /\ now + d <= MaxNow
    /\ now' = now + d
    /\ UNCHANGED <<expectedUser, expectedPass, authStored, lockStored, isAuthed,
                   state, isLoadingState, stateError, hasLoaded, saveTimeout,
                   activeProjectId, confirmOpen, confirmProject, nextId, defaultState,
                   lockUntil, failedAttempts, streak, gateEvent, lastLock,
                   loginError, loads, puts, store,
                   sinceChange, burst, edited, putsSinceChange, lastPut>>
    /\ UNCHANGED <<summaryRange, download, fallbackRate>>
    /\ UNCHANGED sessionLoaded
    /\ UNCHANGED <<editingDate, draftHours, mode, viewDate, view, localToday>>

---------------------------------------------------------------------------
(* GET /api/state *)

\* app.get("/api/state") answers a request with the row's data, or null
ServerGet(i) ==
    /\ loads[i].st = "sent"
    /\ loads' = [loads EXCEPT ![i] = [@ EXCEPT !.st = "ok", !.data = store]]
    /\ UNCHANGED <<expectedUser, expectedPass, authStored, lockStored, now,
                   isAuthed, state, isLoadingState, stateError, hasLoaded,
                   saveTimeout, activeProjectId, confirmOpen, confirmProject,
                   nextId, defaultState, lockUntil, failedAttempts, streak, gateEvent,
                   lastLock, loginError, puts, store,
                   sinceChange, burst, edited, putsSinceChange, lastPut>>
    /\ UNCHANGED <<summaryRange, download, fallbackRate>>
    /\ UNCHANGED sessionLoaded
    /\ UNCHANGED <<editingDate, draftHours, mode, viewDate, view, localToday>>

\* the request fails: the query throws and the server answers 500, or the
\* fetch is rejected
GetFails(i) ==
    /\ loads[i].st = "sent"
    /\ loads' = [loads EXCEPT ![i] = [@ EXCEPT !.st = "err"]]
    /\ UNCHANGED <<expectedUser, expectedPass, authStored, lockStored, now,
                   isAuthed, state, isLoadingState, stateError, hasLoaded,
                   saveTimeout, activeProjectId, confirmOpen, confirmProject,
                   nextId, defaultState, lockUntil, failedAttempts, streak, gateEvent,
                   lastLock, loginError, puts, store,
                   sinceChange, burst, edited, putsSinceChange, lastPut>>
    /\ UNCHANGED <<summaryRange, download, fallbackRate>>
    /\ UNCHANGED sessionLoaded
    /\ UNCHANGED <<editingDate, draftHours, mode, viewDate, view, localToday>>

\* loadState after its await, lines 195-213, for a 200 answer
LoadResolved(i) ==
    /\ loads[i].st = "ok"
    /\ loads' = [loads EXCEPT ![i] = FreeLoad]
    /\ hasLoaded' = IF loads[i].active THEN TRUE ELSE hasLoaded
    /\ isLoadingState' = IF loads[i].active THEN FALSE ELSE isLoadingState
    /\ IF loads[i].data # << >>
       THEN /\ state' = normalizeState(loads[i].data[1])
            /\ activeProjectId' = selectionEffect(state'.projects, activeProjectId)
            /\ saveTimeout' = saveEffect(isAuthed, hasLoaded', state')
            /\ sinceChange' = 0
            /\ burst' = nextBurst
            /\ putsSinceChange' = 0
            /\ edited' = IF isAuthed /\ hasLoaded' THEN TRUE ELSE edited
       ELSE UNCHANGED <<state, activeProjectId, saveTimeout, sinceChange, burst,
                        putsSinceChange, edited>>
    /\ UNCHANGED <<expectedUser, expectedPass, authStored, lockStored, now,
                   isAuthed, stateError, confirmOpen, confirmProject, nextId, defaultState,
                   lockUntil, failedAttempts, streak, gateEvent, lastLock,
                   loginError, puts, store, lastPut>>
    /\ sessionLoaded' = IF loads[i].active THEN TRUE ELSE sessionLoaded
    /\ fallbackRate' =
          IF loads[i].data = << >> THEN fallbackRate
          ELSE {loads[i].data[1].projects[k].id :
                  k \in {j \in 1..Len(loads[i].data[1].projects) :
                            "rate" \notin DOMAIN loads[i].data[1].projects[j]}}
    /\ UNCHANGED <<summaryRange, download>>
    /\ UNCHANGED <<view, localToday>>
    /\ calendarEffect(activeProjectId)

\* loadState's catch, lines 205-213
LoadRejected(i) ==
    /\ loads[i].st = "err"
    /\ loads' = [loads EXCEPT ![i] = FreeLoad]
    /\ stateError' = IF loads[i].active THEN StorageUnavailable ELSE stateError
    /\ isLoadingState' = IF loads[i].active THEN FALSE ELSE isLoadingState
    /\ UNCHANGED <<expectedUser, expectedPass, authStored, lockStored, now,
                   isAuthed, state, hasLoaded, saveTimeout, activeProjectId,
                   confirmOpen, confirmProject, nextId, defaultState, lockUntil,
                   failedAttempts, streak, gateEvent, lastLock, loginError,
                   puts, store, sinceChange, burst, edited,
                   putsSinceChange, lastPut>>
    /\ UNCHANGED <<summaryRange, download, fallbackRate>>
    /\ UNCHANGED sessionLoaded
    /\ UNCHANGED <<editingDate, draftHours, mode, viewDate, view, localToday>>

---------------------------------------------------------------------------
(* The debounced save and PUT /api/state *)

ElapseSteps == {250, 500}

\* d ms pass on the timer clock; a timer that is due runs before more time passes
Elapse(d) ==
    /\ saveTimeout # << >> => d <= saveTimeout[1].remaining
    /\ saveTimeout' = IF saveTimeout = << >> THEN << >>
                      ELSE << [saveTimeout[1] EXCEPT !.remaining = @ - d] >>
    /\ sinceChange' = Min(SaveDelay, sinceChange + d)
    /\ UNCHANGED burst
    /\ UNCHANGED <<expectedUser, expectedPass, authStored, lockStored, now,
                   isAuthed, state, isLoadingState, stateError, hasLoaded,
                   activeProjectId, confirmOpen, confirmProject, nextId, defaultState,
                   lockUntil, failedAttempts, streak, gateEvent, lastLock,
                   loginError, loads, puts, store,
                   edited, putsSinceChange, lastPut>>
    /\ UNCHANGED <<summaryRange, download, fallbackRate>>
    /\ UNCHANGED sessionLoaded
    /\ UNCHANGED <<editingDate, draftHours, mode, viewDate, view, localToday>>

\* the timeout callback, lines 228-234, up to its await: the PUT is sent with
\* the state of the render that set the timer
SaveTimeoutFires ==
    /\ saveTimeout # << >>
    /\ saveTimeout[1].remaining = 0
    /\ FreePutSlots # {}
    /\ puts' = [puts EXCEPT ![FirstFree(FreePutSlots)] =
                   [st |-> "sent", body |-> <<saveTimeout[1].body>>]]
    /\ saveTimeout' = << >>
    /\ putsSinceChange' = Min(2, putsSinceChange + 1)
    /\ lastPut' = <<saveTimeout[1].body>>
    /\ UNCHANGED <<expectedUser, expectedPass, authStored, lockStored, now,
                   isAuthed, state, isLoadingState, stateError, hasLoaded,
                   activeProjectId, confirmOpen, confirmProject, nextId, defaultState,
                   lockUntil, failedAttempts, streak, gateEvent, lastLock,
                   loginError, loads, store,
                   sinceChange, burst, edited>>
    /\ UNCHANGED <<summaryRange, download, fallbackRate>>
    /\ UNCHANGED sessionLoaded
    /\ UNCHANGED <<editingDate, draftHours, mode, viewDate, view, localToday>>

\* app.put("/api/state"), lines 73-83: the row is written and the answer is 200
ServerPut(i) ==
    /\ puts[i].st = "sent"
    /\ store' = puts[i].body
    /\ puts' = [puts EXCEPT ![i] = [@ EXCEPT !.st = "ok"]]
    /\ UNCHANGED <<expectedUser, expectedPass, authStored, lockStored, now,
                   isAuthed, state, isLoadingState, stateError, hasLoaded,
                   saveTimeout, activeProjectId, confirmOpen, confirmProject,
                   nextId, defaultState, lockUntil, failedAttempts, streak, gateEvent,
                   lastLock, loginError, loads,
                   sinceChange, burst, edited, putsSinceChange, lastPut>>
    /\ UNCHANGED <<summaryRange, download, fallbackRate>>
    /\ UNCHANGED sessionLoaded
    /\ UNCHANGED <<editingDate, draftHours, mode, viewDate, view, localToday>>

\* app.put("/api/state"), lines 84-86: the query throws, the answer is 500
ServerPutFails(i) ==
    /\ puts[i].st = "sent"
    /\ puts' = [puts EXCEPT ![i] = [@ EXCEPT !.st = "http_err"]]
    /\ UNCHANGED <<expectedUser, expectedPass, authStored, lockStored, now,
                   isAuthed, state, isLoadingState, stateError, hasLoaded,
                   saveTimeout, activeProjectId, confirmOpen, confirmProject,
                   nextId, defaultState, lockUntil, failedAttempts, streak, gateEvent,
                   lastLock, loginError, loads, store,
                   sinceChange, burst, edited, putsSinceChange, lastPut>>
    /\ UNCHANGED <<summaryRange, download, fallbackRate>>
    /\ UNCHANGED sessionLoaded
    /\ UNCHANGED <<editingDate, draftHours, mode, viewDate, view, localToday>>

\* the request never gets an answer: fetch is rejected
PutNetworkFails(i) ==
    /\ puts[i].st = "sent"
    /\ puts' = [puts EXCEPT ![i] = [@ EXCEPT !.st = "net_err"]]
    /\ UNCHANGED <<expectedUser, expectedPass, authStored, lockStored, now,
                   isAuthed, state, isLoadingState, stateError, hasLoaded,
                   saveTimeout, activeProjectId, confirmOpen, confirmProject,
                   nextId, defaultState, lockUntil, failedAttempts, streak, gateEvent,
                   lastLock, loginError, loads, store,
                   sinceChange, burst, edited, putsSinceChange, lastPut>>
    /\ UNCHANGED <<summaryRange, download, fallbackRate>>
    /\ UNCHANGED sessionLoaded
    /\ UNCHANGED <<editingDate, draftHours, mode, viewDate, view, localToday>>

\* the status the callback sets once fetch has settled, lines 230-238: the
\* awaited fetch resolves for every HTTP answer and the response is not read
statusAfterPut(st) == IF st = "net_err" THEN FailedToSync ELSE ""

\* PutSettled with a handler that, on a failed write, puts the Document back
\* to what the store holds
PutSettledRollsBack(i) ==
    /\ puts[i].st \in {"ok", "http_err", "net_err"}
    /\ stateError' = statusAfterPut(puts[i].st)
    /\ puts' = [puts EXCEPT ![i] = FreePut]
    /\ state' = IF puts[i].st = "ok" THEN state
                ELSE IF store # << >> THEN normalizeState(store[1])
                ELSE defaultState
    /\ UNCHANGED <<expectedUser, expectedPass, authStored, lockStored, now,
                   isAuthed, isLoadingState, hasLoaded, saveTimeout,
                   activeProjectId, confirmOpen, confirmProject, nextId, defaultState,
                   lockUntil, failedAttempts, streak, gateEvent, lastLock,
                   loginError, loads, store, sinceChange, burst, edited,
                   putsSinceChange, lastPut>>
    /\ UNCHANGED <<summaryRange, download, fallbackRate>>
    /\ UNCHANGED sessionLoaded
    /\ UNCHANGED <<editingDate, draftHours, mode, viewDate, view, localToday>>

\* the timeout callback after its await, lines 235-238
PutSettled(i) ==
    /\ puts[i].st \in {"ok", "http_err", "net_err"}
    /\ stateError' = statusAfterPut(puts[i].st)
    /\ puts' = [puts EXCEPT ![i] = FreePut]
    /\ UNCHANGED <<expectedUser, expectedPass, authStored, lockStored, now,
                   isAuthed, state, isLoadingState, hasLoaded, saveTimeout,
                   activeProjectId, confirmOpen, confirmProject, nextId, defaultState,
                   lockUntil, failedAttempts, streak, gateEvent, lastLock,
                   loginError, loads, store,
                   sinceChange, burst, edited, putsSinceChange, lastPut>>
    /\ UNCHANGED <<summaryRange, download, fallbackRate>>
    /\ UNCHANGED sessionLoaded
    /\ UNCHANGED <<editingDate, draftHours, mode, viewDate, view, localToday>>

---------------------------------------------------------------------------
(* Document mutations *)

\* the selected project as the render computes it: <<>> or <<project>>
activeProject ==
    SelectSeq(activeProjects(state.projects),
              LAMBDA project : project.id = activeProjectId)

\* Commit with a save effect that leaves a pending timer alone instead of
\* clearing and resetting it
CommitKeepsTimer(newState, selected) ==
    /\ state' = newState
    /\ activeProjectId' = selectionEffect(newState.projects, selected)
    /\ saveTimeout' = IF saveTimeout # << >> THEN saveTimeout
                      ELSE saveEffect(isAuthed, hasLoaded, newState)
    /\ sinceChange' = 0
    /\ burst' = nextBurst
    /\ putsSinceChange' = 0
    /\ edited' = IF isAuthed /\ hasLoaded THEN TRUE ELSE edited

\* setState(updater) of a handler, with the selection it asks for, and the
\* effects of the new state: selection and debounced save
Commit(newState, selected) ==
    /\ state' = newState
    /\ activeProjectId' = selectionEffect(newState.projects, selected)
    /\ saveTimeout' = saveEffect(isAuthed, hasLoaded, newState)
    /\ sinceChange' = 0
    /\ burst' = nextBurst
    /\ putsSinceChange' = 0
    /\ edited' = IF isAuthed /\ hasLoaded THEN TRUE ELSE edited

Untouched ==
    /\ UNCHANGED <<expectedUser, expectedPass, authStored, lockStored, now,
                isAuthed, isLoadingState, stateError, hasLoaded, lockUntil,
                failedAttempts, streak, gateEvent, lastLock, loginError,
                loads, puts, store, lastPut>>
    /\ UNCHANGED <<summaryRange, download, sessionLoaded, view, localToday>>

\* the profile inputs, lines 544 and 557
UpdateProfile(updates) ==
    /\ isAuthed
    /\ Commit(updateProfile(state, updates), activeProjectId)
    /\ UNCHANGED <<confirmOpen, confirmProject, nextId, defaultState>>
    /\ Untouched
    /\ UNCHANGED fallbackRate
    /\ calendarEffect(activeProjectId)

\* the rate input of a project row, lines 629-638
SetProjectRate(projectId, rate) ==
    /\ isAuthed
    /\ projectId \in ProjectIds(activeProjects(state.projects))
    /\ Commit(updateProject(state, projectId, [rate |-> rate]), activeProjectId)
    /\ UNCHANGED <<confirmOpen, confirmProject, nextId, defaultState>>
    /\ Untouched
    /\ fallbackRate' = fallbackRate \ {projectId}
    /\ calendarEffect(activeProjectId)

\* the title input of the selected project, lines 660-669
RenameProject(name) ==
    /\ isAuthed
    /\ activeProject # << >>
    /\ Commit(updateProject(state, activeProject[1].id, [name |-> name]),
              activeProjectId)
    /\ UNCHANGED <<confirmOpen, confirmProject, nextId, defaultState>>
    /\ Untouched
    /\ UNCHANGED fallbackRate
    /\ calendarEffect(activeProjectId)

\* addProject(), lines 308-321
AddProject ==
    /\ isAuthed
    /\ Len(state.projects) < MaxProjects
    /\ nextId <= MaxIds
    /\ Commit(addProject(state, newProject(nextId, state.profile.rate)), nextId)
    /\ nextId' = nextId + 1
    /\ UNCHANGED defaultState
    /\ UNCHANGED <<confirmOpen, confirmProject>>
    /\ Untouched
    /\ fallbackRate' = fallbackRate \cup {nextId}
    /\ calendarEffect(nextId)

\* the Archive project button, line 689: archiveProject(activeProject.id)
ArchiveProject ==
    /\ isAuthed
    /\ activeProject # << >>
    /\ Commit(archiveProject(state, activeProject[1].id), activeProjectId)
    /\ UNCHANGED <<confirmOpen, confirmProject, nextId, defaultState>>
    /\ Untouched
    /\ UNCHANGED fallbackRate
    /\ calendarEffect(activeProjectId)

\* the Restore button of an archived project, line 964
RestoreProject(projectId) ==
    /\ isAuthed
    /\ projectId \in ProjectIds(archivedProjects(state.projects))
    /\ Commit(restoreProject(state, projectId), activeProjectId)
    /\ UNCHANGED <<confirmOpen, confirmProject, nextId, defaultState>>
    /\ Untouched
    /\ UNCHANGED fallbackRate
    /\ calendarEffect(activeProjectId)

\* the Delete button of an archived project, line 971: confirmRemoveProject
ConfirmRemoveProject(i) ==
    /\ isAuthed
    /\ i \in 1..Len(state.projects)
    /\ state.projects[i].archived
    /\ confirmProject' = <<state.projects[i]>>
    /\ confirmOpen' = TRUE
    /\ UNCHANGED <<state, activeProjectId, saveTimeout, nextId, defaultState, sinceChange, burst,
                   putsSinceChange, edited>>
    /\ Untouched
    /\ UNCHANGED fallbackRate
    /\ UNCHANGED <<editingDate, draftHours, mode, viewDate, view, localToday>>

\* the Cancel and close buttons of the confirm dialog, lines 1007-1018
CancelConfirm ==
    /\ isAuthed
    /\ confirmOpen
    /\ confirmOpen' = FALSE
    /\ UNCHANGED <<state, activeProjectId, saveTimeout, confirmProject, nextId, defaultState,
                   sinceChange, burst, putsSinceChange, edited>>
    /\ Untouched
    /\ UNCHANGED fallbackRate
    /\ UNCHANGED <<editingDate, draftHours, mode, viewDate, view, localToday>>

\* handleConfirmDelete(), lines 346-352
HandleConfirmDelete ==
    /\ isAuthed
    /\ confirmOpen
    /\ IF confirmProject # << >>
       THEN Commit(removeProject(state, confirmProject[1].id), activeProjectId)
       ELSE UNCHANGED <<state, activeProjectId, saveTimeout, sinceChange, burst,
                        putsSinceChange, edited>>
    /\ confirmProject' = << >>
    /\ confirmOpen' = FALSE
    /\ UNCHANGED <<nextId, defaultState>>
    /\ Untouched
    /\ fallbackRate' = IF confirmProject # << >> THEN fallbackRate \ {confirmProject[1].id}
                     ELSE fallbackRate
    /\ calendarEffect(activeProjectId)

\* a click on a project row, line 614
SetActiveProjectId(projectId) ==
    /\ isAuthed
    /\ projectId \in ProjectIds(activeProjects(state.projects))
    /\ activeProjectId' = selectionEffect(state.projects, projectId)
    /\ UNCHANGED <<state, saveTimeout, confirmOpen, confirmProject, nextId, defaultState,
                   sinceChange, burst, putsSinceChange, edited>>
    /\ Untouched
    /\ UNCHANGED fallbackRate
    /\ calendarEffect(projectId)

\* the Add entry buttons, lines 682 and 727
AddEntry ==
    /\ isAuthed
    /\ activeProject # << >>
    /\ Len(activeProject[1].entries) < MaxEntries
    /\ nextId <= MaxIds
    /\ Commit(addEntry(state, activeProject[1].id, newEntry(nextId)), activeProjectId)
    /\ nextId' = nextId + 1
    /\ UNCHANGED defaultState
    /\ UNCHANGED <<confirmOpen, confirmProject>>
    /\ Untouched
    /\ UNCHANGED fallbackRate
    /\ calendarEffect(activeProjectId)

\* the remove button of an entry row of the Rows view, line 764
RemoveEntry(k) ==
    /\ isAuthed
    /\ activeProject # << >>
    /\ view = "rows"
    /\ k \in 1..Len(activeProject[1].entries)
    /\ Commit(removeEntry(state, activeProject[1].id, activeProject[1].entries[k].id),
              activeProjectId)
    /\ UNCHANGED <<confirmOpen, confirmProject, nextId, defaultState>>
    /\ Untouched
    /\ UNCHANGED fallbackRate
    /\ calendarEffect(activeProjectId)

\* the texts of the calendar cell editor and of the row editor's hours field
Drafts == {"", "0", "3", "-2", "1e999"}
RowHours == {"", "3", "-2"}

\* the dates of the calendar cells and of the row editor's date field
CalendarDates == {Today - 1, Today}

\* String(hours) for the hours a cell shows
String(hours) ==
    CASE hours = 450 -> "4.5"
      [] hours = 300 -> "3"
      [] hours = 200 -> "2"
      [] hours = 150 -> "1.5"
      [] hours = 100 -> "1"
      [] hours = -200 -> "-2"
      [] OTHER -> "0"

\* entryByDate[dateKey], lines 1164-1167 and 1238: << >> is undefined
RECURSIVE entryByDate(_, _)
entryByDate(entries, dateKey) ==
    IF entries = << >> THEN << >>
    ELSE IF entries[Len(entries)].date = dateKey
         THEN <<hoursNumber(entries[Len(entries)].hours)>>
         ELSE entryByDate(SubSeq(entries, 1, Len(entries) - 1), dateKey)

\* handleSave's call of onSetHours(editingDate, hoursValue), lines 1191-1192,
\* and setEntryHours, lines 386-419, which it reaches for the selected project
saveDraft ==
    LET hoursValue == IF draftHours = "" THEN <<0>> ELSE Number(draftHours)
        pid == activeProject[1].id
        date == editingDate[1]
    IN IF ~isFinite(hoursValue)
       THEN UNCHANGED <<state, activeProjectId, saveTimeout, sinceChange, burst,
                        putsSinceChange, edited, nextId, defaultState>>
       ELSE /\ setEntryHoursMakesId(state, pid, date, hoursValue[1])
                 => nextId <= MaxIds /\ Len(activeProject[1].entries) < MaxEntries
            /\ Commit(setEntryHours(state, pid, date, hoursValue[1], nextId),
                      activeProjectId)
            /\ nextId' = IF setEntryHoursMakesId(state, pid, date, hoursValue[1])
                         THEN nextId + 1 ELSE nextId
            /\ UNCHANGED defaultState

\* the CalendarView is on screen, lines 657 and 713-782
calendarShown == isAuthed /\ activeProject # << >> /\ view = "calendar"

\* the draft input is on screen: it is rendered in the cell whose date is
\* editingDate, lines 1239 and 1259-1285, while that cell is in the grid
editorShown ==
    /\ calendarShown
    /\ editingDate # << >>
    /\ \E index \in 1..Len(gridCells) : gridCells[index] = editingDate

\* CalendarView.handleSave, lines 1187-1194: the cell editor's blur and Enter
HandleSave ==
    /\ editorShown
    /\ saveDraft
    /\ editingDate' = << >>
    /\ UNCHANGED <<draftHours, confirmOpen, confirmProject, fallbackRate>>
    /\ UNCHANGED <<mode, viewDate>>
    /\ Untouched

\* a click on a calendar cell that is not being edited, lines 1247-1256: the
\* cell in edit is saved first, then this one opens with the hours it shows
ClickCell(dateKey) ==
    /\ calendarShown
    /\ \E index \in 1..Len(gridCells) : gridCells[index] = <<dateKey>>
    /\ editingDate # <<dateKey>>
    /\ IF editingDate # << >> THEN saveDraft
       ELSE UNCHANGED <<state, activeProjectId, saveTimeout, sinceChange, burst,
                        putsSinceChange, edited, nextId, defaultState>>
    /\ editingDate' = <<dateKey>>
    /\ draftHours' =
          LET hours == entryByDate(activeProject[1].entries, dateKey) IN
          IF hours # << >> /\ hours[1] # 0 THEN String(hours[1]) ELSE ""
    /\ UNCHANGED <<confirmOpen, confirmProject, fallbackRate, mode, viewDate>>
    /\ Untouched

\* typing in the cell editor, line 1270
SetDraftHours(text) ==
    /\ editorShown
    /\ draftHours' = text
    /\ UNCHANGED <<state, activeProjectId, saveTimeout, sinceChange, burst,
                   putsSinceChange, edited, nextId, defaultState, editingDate, confirmOpen,
                   confirmProject, fallbackRate, mode, viewDate>>
    /\ Untouched

\* Escape in the cell editor, lines 1277-1280
CancelEdit ==
    /\ editorShown
    /\ editingDate' = << >>
    /\ UNCHANGED <<state, activeProjectId, saveTimeout, sinceChange, burst,
                   putsSinceChange, edited, nextId, defaultState, draftHours, confirmOpen,
                   confirmProject, fallbackRate, mode, viewDate>>
    /\ Untouched

\* the hours field of an entry row, lines 748-758: the number stored is
\* Number(event.target.value), whatever its sign (the texts of RowHours all
\* parse to a finite number)
UpdateEntryHours(k, text) ==
    /\ isAuthed
    /\ activeProject # << >>
    /\ view = "rows"
    /\ k \in 1..Len(activeProject[1].entries)
    /\ Commit(updateEntry(state, activeProject[1].id, activeProject[1].entries[k].id,
                          [hours |-> Number(text)[1]]),
              activeProjectId)
    /\ UNCHANGED <<confirmOpen, confirmProject, nextId, defaultState, fallbackRate>>
    /\ Untouched
    /\ calendarEffect(activeProjectId)

\* the date field of an entry row, lines 739-747
UpdateEntryDate(k, date) ==
    /\ isAuthed
    /\ activeProject # << >>
    /\ view = "rows"
    /\ k \in 1..Len(activeProject[1].entries)
    /\ Commit(updateEntry(state, activeProject[1].id, activeProject[1].entries[k].id,
                          [date |-> date]),
              activeProjectId)
    /\ UNCHANGED <<confirmOpen, confirmProject, nextId, defaultState, fallbackRate>>
    /\ Untouched
    /\ calendarEffect(activeProjectId)

SummaryRanges == {"all", "week", "today"}

\* the summary range select, lines 567-569
SetSummaryRange(range) ==
    /\ isAuthed
    /\ summaryRange' = range
    /\ UNCHANGED <<expectedUser, expectedPass, authStored, lockStored, now,
                   isAuthed, state, isLoadingState, stateError, hasLoaded,
                   saveTimeout, activeProjectId, confirmOpen, confirmProject,
                   nextId, defaultState, lockUntil, failedAttempts, loginError, loads, puts,
                   store, sinceChange, edited, putsSinceChange, lastPut, burst,
                   streak, gateEvent, lastLock, download, fallbackRate,
                   sessionLoaded, editingDate, draftHours, mode, viewDate, view,
                   localToday>>

\* the first row of the file, line 58
CsvHeader == <<"Project", "Date", "Hours", "Rate", "Earned">>

\* the rows buildCsv makes of a project, lines 60-71: the cells of numbers
\* are the hundredths that toFixed(2) prints
csvRows(profile, project) ==
    [k \in 1..Len(project.entries) |->
        LET hours == hoursNumber(project.entries[k].hours)
            projectRate == IF "rate" \in DOMAIN project THEN project.rate
                           ELSE IF "rate" \in DOMAIN profile THEN profile.rate
                           ELSE 0
        IN <<project.name, project.entries[k].date, hours, projectRate * 100,
             hours * projectRate>>]

\* projects.flatMap(...), lines 59-72
RECURSIVE flatRows(_, _)
flatRows(profile, projects) ==
    IF projects = << >> THEN << >>
    ELSE csvRows(profile, Head(projects)) \o flatRows(profile, Tail(projects))

\* buildCsv({ profile, projects }), lines 56-76: the file as its rows of cells
buildCsv(profile, projects) == <<CsvHeader>> \o flatRows(profile, projects)

\* the filter with the bounds left out of the range
inExportRangeExclusive(range, entryDate) ==
    IF range.start = NoDate /\ range.end = NoDate THEN TRUE
    ELSE IF range.start # NoDate /\ entryDate <= range.start THEN FALSE
    ELSE IF range.end # NoDate /\ entryDate >= range.end THEN FALSE
    ELSE TRUE

\* the entry filter of applyExport, lines 445-456: dates compare as strings
\* and the empty string (NoDate) is falsy
inExportRange(range, entryDate) ==
    IF range.start = NoDate /\ range.end = NoDate THEN TRUE
    ELSE IF range.start # NoDate /\ entryDate < range.start THEN FALSE
    ELSE IF range.end # NoDate /\ entryDate > range.end THEN FALSE
    ELSE TRUE

\* filteredProjects of applyExport, lines 442-459
filteredProjects(projects, ids, range) ==
    LET selected == SelectSeq(projects, LAMBDA project : project.id \in ids)
        cut == [i \in 1..Len(selected) |->
                  [selected[i] EXCEPT !.entries =
                      SelectSeq(selected[i].entries,
                                LAMBDA entry : inExportRange(range, entry.date))]]
    IN SelectSeq(cut, LAMBDA project : Len(project.entries) > 0)

\* filename of applyExport, lines 460-464: "tr4ck-export_" and the range
\* label; an empty bound (<< >>) prints as "start" resp. "today", and two
\* empty bounds as "all-time"
exportFilename(range) ==
    [start |-> IF range.start # NoDate THEN <<range.start>> ELSE << >>,
     end |-> IF range.end # NoDate THEN <<range.end>> ELSE << >>]

\* the dates the range inputs of the export dialog are given: none, and
\* yesterday (which leaves out the entries of today or the undated ones)
ExportDates == {NoDate, Today - 1}

\* applyExport(), lines 441-468, for the selection and the range the export
\* dialog holds when Download CSV is clicked: the dialog opens with every
\* project selected and an empty range (handleExport, 435-439), each check
\* box flips one id (832-844), the range inputs set the bounds (882, 895),
\* and the button is disabled while no project is selected (line 919)
ApplyExport(ids, range) ==
    /\ isAuthed
    /\ ids # {}
    /\ ids \subseteq ProjectIds(state.projects)
    /\ download' = <<[filename |-> exportFilename(range),
                      csv |-> buildCsv(state.profile,
                                       filteredProjects(state.projects, ids, range))]>>
    /\ UNCHANGED <<expectedUser, expectedPass, authStored, lockStored, now,
                   isAuthed, state, isLoadingState, stateError, hasLoaded,
                   saveTimeout, activeProjectId, confirmOpen, confirmProject,
                   nextId, defaultState, lockUntil, failedAttempts, loginError, loads, puts,
                   store, sinceChange, edited, putsSinceChange, lastPut, burst,
                   streak, gateEvent, lastLock, summaryRange, fallbackRate,
                   sessionLoaded, editingDate, draftHours, mode, viewDate, view,
                   localToday>>

CalendarModes == {"week", "month"}

\* the Month and Week buttons, lines 1202 and 1209
SetMode(m) ==
    /\ calendarShown
    /\ mode' = m
    /\ UNCHANGED <<state, activeProjectId, saveTimeout, sinceChange, burst,
                   putsSinceChange, edited, nextId, defaultState, editingDate, draftHours,
                   confirmOpen, confirmProject, fallbackRate, viewDate>>
    /\ Untouched

\* goToPrev, lines 1169-1176, while the months of the model last
GoToPrev ==
    /\ calendarShown
    /\ IF mode = "month"
       THEN /\ getMonth(viewDate) - 1 \in Months
            /\ viewDate' = MonthStarts[getMonth(viewDate) - 1]
       ELSE /\ viewDate - 7 >= MonthStarts[1]
            /\ viewDate' = viewDate - 7
    /\ UNCHANGED <<state, activeProjectId, saveTimeout, sinceChange, burst,
                   putsSinceChange, edited, nextId, defaultState, editingDate, draftHours,
                   confirmOpen, confirmProject, fallbackRate, mode>>
    /\ Untouched

\* goToNext, lines 1178-1185, while the months of the model last
GoToNext ==
    /\ calendarShown
    /\ IF mode = "month"
       THEN /\ getMonth(viewDate) + 1 \in Months
            /\ viewDate' = MonthStarts[getMonth(viewDate) + 1]
       ELSE /\ viewDate + 7 <= LastViewDay
            /\ viewDate' = viewDate + 7
    /\ UNCHANGED <<state, activeProjectId, saveTimeout, sinceChange, burst,
                   putsSinceChange, edited, nextId, defaultState, editingDate, draftHours,
                   confirmOpen, confirmProject, fallbackRate, mode>>
    /\ Untouched

Views == {"calendar", "rows"}

\* the Calendar and Rows tabs, lines 696-711: the Rows view takes the place
\* of the CalendarView, which unmounts; the Calendar tab mounts a new one
SetView(v) ==
    /\ isAuthed
    /\ activeProject # << >>
    /\ view' = v
    /\ editingDate' = IF v = view THEN editingDate ELSE << >>
    /\ draftHours' = IF v = view THEN draftHours ELSE ""
    /\ mode' = IF v = view THEN mode ELSE "week"
    /\ viewDate' = IF v = view THEN viewDate ELSE localToday
    /\ UNCHANGED <<expectedUser, expectedPass, authStored, lockStored, now,
                   isAuthed, state, isLoadingState, stateError, hasLoaded,
                   saveTimeout, activeProjectId, confirmOpen, confirmProject,
                   nextId, defaultState, lockUntil, failedAttempts, loginError, loads, puts,
                   store, sinceChange, edited, putsSinceChange, lastPut, burst,
                   streak, gateEvent, lastLock, summaryRange, download,
                   fallbackRate, sessionLoaded, localToday>>

---------------------------------------------------------------------------
(* Specifications *)

FormRates == {85, 100}
DocRates == {100}
FormNames == {"Atlas redesign", "Beta"}

\* the persistence controller in one session: the log-in, the load, the
\* debounced save and the server, under mutations of the Document
Next ==
    \/ Submit(expectedUser, expectedPass)
    \/ \E i \in LoadSlots : ServerGet(i)
    \/ \E i \in LoadSlots : GetFails(i)
    \/ \E i \in LoadSlots : LoadResolved(i)
    \/ \E i \in LoadSlots : LoadRejected(i)
    \/ \E d \in ElapseSteps : Elapse(d)
    \/ SaveTimeoutFires
    \/ \E i \in PutSlots : ServerPut(i)
    \/ \E i \in PutSlots : ServerPutFails(i)
    \/ \E i \in PutSlots : PutNetworkFails(i)
    \/ \E i \in PutSlots : PutSettled(i)
    \/ \E r \in FormRates : UpdateProfile([rate |-> r])

Init == Boot({<<"admin", "secret">>}, InitialStores)

Spec == Init /\ [][Next]_vars

\* the auth gate: submissions with any credentials, the wall clock, reloads
NextAuth ==
    \/ \E u \in Usernames, p \in Passwords : Submit(u, p)
    \/ Logout
    \/ Reload
    \/ \E d \in ClockSteps : Advance(d)
    \/ \E i \in LoadSlots : ServerGet(i)
    \/ \E i \in LoadSlots : GetFails(i)
    \/ \E i \in LoadSlots : LoadResolved(i)
    \/ \E i \in LoadSlots : LoadRejected(i)

InitAuth == Boot(Configs, InitialStores)

SpecAuth == InitAuth /\ [][NextAuth]_vars

\* the Document editor: every mutation of the project list, on the default
\* Document or a loaded one
NextDoc ==
    \/ \E i \in LoadSlots : ServerGet(i)
    \/ \E i \in LoadSlots : LoadResolved(i)
    \/ \E r \in DocRates : UpdateProfile([rate |-> r])
    \/ AddProject
    \/ ArchiveProject
    \/ \E i \in 1..Len(state.projects) : RestoreProject(state.projects[i].id)
    \/ \E i \in 1..Len(state.projects) : ConfirmRemoveProject(i)
    \/ CancelConfirm
    \/ HandleConfirmDelete
    \/ \E i \in 1..Len(state.projects) : SetActiveProjectId(state.projects[i].id)

InitDoc == Boot({<<"", "">>}, InitialStores)

SpecDoc == InitDoc /\ [][NextDoc]_vars

\* the dates the row editor's date field is given: cleared, and yesterday
RowDates == {NoDate, Today - 1}

\* the calendar cell editor on the selected project of the default Document
\* or a loaded one, with the Add entry and remove buttons
NextEntries ==
    \/ \E i \in LoadSlots : ServerGet(i)
    \/ \E i \in LoadSlots : LoadResolved(i)
    \/ AddEntry
    \/ \E k \in 1..MaxEntries : RemoveEntry(k)
    \/ \E d \in CalendarDates : ClickCell(d)
    \/ \E t \in Drafts : SetDraftHours(t)
    \/ HandleSave
    \/ CancelEdit
    \/ \E v \in Views : SetView(v)

InitEntries == Boot({<<"", "">>}, InitialStores)

SpecEntries == InitEntries /\ [][NextEntries]_vars

\* the row editor on the selected project of the default Document or a
\* loaded one, and the summary range of the totals
NextTotals ==
    \/ \E i \in LoadSlots : ServerGet(i)
    \/ \E i \in LoadSlots : LoadResolved(i)
    \/ AddEntry
    \/ \E k \in 1..MaxEntries : RemoveEntry(k)
    \/ \E k \in 1..MaxEntries, t \in RowHours : UpdateEntryHours(k, t)
    \/ \E k \in 1..MaxEntries, d \in RowDates : UpdateEntryDate(k, d)
    \/ \E r \in SummaryRanges : SetSummaryRange(r)
    \/ \E v \in Views : SetView(v)

InitTotals == BootAt({<<"", "">>}, InitialStores, LocalDates)

SpecTotals == InitTotals /\ [][NextTotals]_vars

\* a Document saved by a client that wrote no rate on its project
savedWithoutRate ==
    [profile |-> [name |-> "Ann", rate |-> 100],
     projects |->
        << [id |-> 95, name |-> "Legacy", archived |-> FALSE,
            entries |-> << [id |-> 96, date |-> Today, hours |-> 200] >>] >>]

RateStores == {<< >>, <<savedWithoutRate>>}

\* the rates: the default rate of the profile, new projects, loaded projects
\* without a rate, and the rate input of a project row
NextRate ==
    \/ \E i \in LoadSlots : ServerGet(i)
    \/ \E i \in LoadSlots : LoadResolved(i)
    \/ \E r \in FormRates : UpdateProfile([rate |-> r])
    \/ AddProject
    \/ \E i \in 1..Len(state.projects), r \in FormRates :
           SetProjectRate(state.projects[i].id, r)
    \/ \E i \in 1..Len(state.projects) : SetActiveProjectId(state.projects[i].id)

InitRate == Boot({<<"", "">>}, RateStores)

SpecRate == InitRate /\ [][NextRate]_vars

\* the CSV export of the default Document or a loaded one, with entries
\* added and dated through the row editor
NextExport ==
    \/ \E i \in LoadSlots : ServerGet(i)
    \/ \E i \in LoadSlots : LoadResolved(i)
    \/ AddEntry
    \/ \E k \in 1..MaxEntries, d \in RowDates : UpdateEntryDate(k, d)
    \/ \E ids \in SUBSET ProjectIds(state.projects), start, end \in ExportDates :
           ApplyExport(ids, [start |-> start, end |-> end])
    \/ \E v \in Views : SetView(v)

InitExport == Boot({<<"", "">>}, InitialStores)

SpecExport == InitExport /\ [][NextExport]_vars

\* sessions: log-in, log-out and log-in again on one page, with the load and
\* the debounced save of each session, under changes of the default rate
NextSession ==
    \/ Submit(expectedUser, expectedPass)
    \/ Logout
    \/ \E i \in LoadSlots : ServerGet(i)
    \/ \E i \in LoadSlots : LoadResolved(i)
    \/ \E d \in ElapseSteps : Elapse(d)
    \/ SaveTimeoutFires
    \/ \E i \in PutSlots : ServerPut(i)
    \/ \E i \in PutSlots : PutSettled(i)
    \/ \E r \in DocRates : UpdateProfile([rate |-> r])

InitSession == Boot({<<"admin", "secret">>}, InitialStores)

SpecSession == InitSession /\ [][NextSession]_vars

\* the calendar grid: the mode buttons and the navigation, on the selected
\* project of the default Document or a loaded one
NextCalendar ==
    \/ \E i \in LoadSlots : ServerGet(i)
    \/ \E i \in LoadSlots : LoadResolved(i)
    \/ \E m \in CalendarModes : SetMode(m)
    \/ GoToPrev
    \/ GoToNext
    \/ \E d \in CalendarDates : ClickCell(d)
    \/ CancelEdit
    \/ \E v \in Views : SetView(v)

InitCalendar == BootAt({<<"", "">>}, InitialStores, LocalDates)

SpecCalendar == InitCalendar /\ [][NextCalendar]_vars

---------------------------------------------------------------------------
(* Claims: persistence *)

\* C1. Debounced persistence. Every replacement of the Document cancels the
\* pending write and schedules a new one: a pending write always carries the
\* current Document and is never due earlier than 500 ms after the last
\* replacement, so no PUT is issued during a burst; a PUT is issued only
\* 500 ms after the last replacement and carries the Document as it then
\* stands; and in a loaded, authenticated session that has changed the
\* Document, the write is either still pending or exactly one PUT was issued
\* since the last change, carrying the current Document.
C1_DebouncedPersistence ==
    /\ [](/\ saveTimeout # << >> =>
                /\ saveTimeout[1].body = state
                /\ saveTimeout[1].remaining + sinceChange >= SaveDelay
                /\ putsSinceChange = 0
          /\ putsSinceChange <= 1
          /\ (isAuthed /\ hasLoaded /\ edited) =>
                \/ saveTimeout # << >>
                \/ putsSinceChange = 1 /\ lastPut = <<state>>)
    /\ [][SaveTimeoutFires =>
            /\ sinceChange >= SaveDelay
            /\ \E i \in PutSlots : puts[i].st = "free" /\ puts'[i].body = <<state>>]_vars

\* a burst of at least two changes, each less than 500 ms after the one
\* before, was followed by its one PUT, which carried the settled Document
C1_Witness ==
    /\ isAuthed /\ hasLoaded /\ edited
    /\ putsSinceChange = 1
    /\ saveTimeout = << >>
    /\ lastPut = <<state>>
    /\ burst = 2
    /\ sinceChange >= SaveDelay

\* C2. Stale load is discarded: the answer of a GET whose loadState call was
\* made stale by a log-out changes neither the Document nor the load/sync
\* status.
C2_StaleLoadDiscarded ==
    [][\A i \in LoadSlots :
          (loads[i].st \in {"ok", "err"} /\ ~loads[i].active /\ loads'[i] = FreeLoad)
          => /\ state' = state
             /\ isLoadingState' = isLoadingState
             /\ stateError' = stateError
             /\ hasLoaded' = hasLoaded]_vars

\* C3. A non-2xx answer to the PUT is handled as a sync failure, like a
\* rejected fetch: the sync-failed status is set.
C3_Non2xxIsSyncFailure ==
    [][\A i \in PutSlots :
          (puts[i].st = "http_err" /\ puts'[i] = FreePut)
          => stateError' = FailedToSync]_vars

\* C4. A failed write (non-2xx answer or rejected fetch) leaves the Document
\* and the pending write as they were; and every change of the Document in
\* a loaded, authenticated session, after a failure as at any other time,
\* is accepted and schedules a write of the whole new Document.
C4_FailedWriteKeepsDocument ==
    [][/\ \A i \in PutSlots :
            (puts[i].st \in {"http_err", "net_err"} /\ puts'[i] = FreePut)
            => state' = state /\ saveTimeout' = saveTimeout
       /\ (isAuthed /\ hasLoaded /\ state' # state)
            => saveTimeout' = << [remaining |-> SaveDelay, body |-> state'] >>]_vars

\* after a failed write the Document was changed again and its write, which
\* carries the whole Document, is pending
C4_Witness ==
    /\ stateError = FailedToSync
    /\ lastPut # << >> /\ lastPut # <<state>>
    /\ store # <<state>>
    /\ saveTimeout # << >> /\ saveTimeout[1].body = state

---------------------------------------------------------------------------
(* Claims: auth gate *)

\* the gate is locked out: now < until
GateLocked == lockUntil # 0 /\ now < lockUntil

\* the submitted credentials match the configured ones, an empty configured
\* value matching anything
Matches(username, password) ==
    /\ expectedUser = "" \/ username = expectedUser
    /\ expectedPass = "" \/ password = expectedPass

\* C5. Lockout: the counter is the number of mismatching submissions in a row
\* at this gate and stays below 5; a mismatching submission at an unlocked
\* gate that is the fifth in a row locks the gate until now + 30 s and
\* resets the counter, and an earlier one leaves the gate unlocked.
C5_Lockout ==
    /\ [](~isAuthed => failedAttempts = streak /\ streak < MaxFailedAttempts)
    /\ [][\A u \in Usernames, p \in Passwords :
            (Submit(u, p) /\ ~GateLocked /\ ~Matches(u, p)) =>
                IF streak = MaxFailedAttempts - 1
                THEN /\ lockUntil' = now + 30 * 1000
                     /\ lockStored' = <<now + 30 * 1000>>
                     /\ failedAttempts' = 0
                     /\ ~isAuthed'
                ELSE /\ ~(lockUntil' # 0 /\ now < lockUntil')
                     /\ failedAttempts' = failedAttempts + 1
                     /\ ~isAuthed']_vars

\* the fifth mismatch in a row has just locked the gate
C5_Witness ==
    /\ gateEvent = "lockout"
    /\ ~isAuthed
    /\ lockUntil = now + LockMs
    /\ failedAttempts = 0

\* C6. A submission at a locked-out gate is rejected whatever the
\* credentials: the gate stays unauthenticated, until stays as it is, in the
\* screen and in localStorage, and the counter is unchanged.
C6_LockedSubmitRejected ==
    [][\A u \in Usernames, p \in Passwords :
          (Submit(u, p) /\ GateLocked) =>
              /\ ~isAuthed'
              /\ authStored' = authStored
              /\ lockUntil' = lockUntil
              /\ lockStored' = lockStored
              /\ failedAttempts' = failedAttempts]_vars

\* a submission was rejected at a gate that is still locked
C6_Witness ==
    /\ gateEvent = "rejected"
    /\ GateLocked
    /\ ~isAuthed
    /\ now > lastLock - LockMs

\* C7. A submission with matching credentials at a gate that is not locked
\* (now >= until) authenticates and resets the counter, whatever came before.
C7_MatchAuthenticates ==
    [][\A u \in Usernames, p \in Passwords :
          (Submit(u, p) /\ ~GateLocked /\ Matches(u, p)) =>
              /\ isAuthed'
              /\ failedAttempts' = 0
              /\ authStored' = <<"true">>]_vars

\* a log-in at the very instant a lockout expired
C7_Witness ==
    /\ gateEvent = "authenticated"
    /\ isAuthed
    /\ lastLock # 0
    /\ now = lastLock

\* C8. With credentials configured, a reload starts with the auth state the
\* page had: authenticated from a successful log-in until a log-out,
\* unauthenticated from a log-out until the next successful log-in. The auth
\* state changes by nothing else.
C8_AuthSurvivesReload ==
    [][/\ (authRequired /\ Reload) => isAuthed' = isAuthed
       /\ (~isAuthed /\ isAuthed') => gateEvent' = "authenticated"
       /\ (isAuthed /\ ~isAuthed') => gateEvent' = "logout"]_vars

\* a page reloaded while logged in
C8_Witness ==
    /\ authRequired
    /\ gateEvent = "reload"
    /\ isAuthed
    /\ ~hasLoaded

---------------------------------------------------------------------------
(* Claims: the Document editor *)

\* the id of the first non-archived project in Document order, or null
FirstActiveId(projects) ==
    LET idx == {i \in 1..Len(projects) : ~projects[i].archived} IN
    IF idx = {} THEN NoId
    ELSE projects[CHOOSE i \in idx : \A j \in idx : i <= j].id

\* C9. Selection invariant: the selection is null or the id of a
\* non-archived project of the Document; and when a step archives or removes
\* the selected project, the selection becomes the first non-archived
\* project in Document order, or null when there is none.
C9_SelectionInvariant ==
    /\ [](\/ activeProjectId = NoId
          \/ \E i \in 1..Len(state.projects) :
                /\ state.projects[i].id = activeProjectId
                /\ ~state.projects[i].archived)
    /\ [][(/\ activeProjectId # NoId
           /\ ~\E i \in 1..Len(state'.projects) :
                   /\ state'.projects[i].id = activeProjectId
                   /\ ~state'.projects[i].archived)
          => activeProjectId' = FirstActiveId(state'.projects)]_vars

\* the middle one of three projects, made here and so archived while it was
\* selected, is archived and the first project is selected, not the last
C9_Witness ==
    /\ Len(state.projects) = 3
    /\ state.projects[2].archived
    /\ state.projects[2].id \in FirstFreeId..MaxIds
    /\ ~state.projects[1].archived
    /\ ~state.projects[3].archived
    /\ activeProjectId = state.projects[1].id

\* C10. deleteProject removes exactly the project with the given id, with
\* its entries: the other projects stay, in order, each as it was, and the
\* profile is unchanged.
C10_DeleteProject ==
    [][(HandleConfirmDelete /\ confirmProject # << >>) =>
          LET pid == confirmProject[1].id
              at == {i \in 1..Len(state.projects) : state.projects[i].id = pid}
          IN /\ state'.profile = state.profile
             /\ IF at = {} THEN state'.projects = state.projects
                ELSE \E k \in at :
                        /\ at = {k}
                        /\ state'.projects =
                              SubSeq(state.projects, 1, k - 1)
                              \o SubSeq(state.projects, k + 1, Len(state.projects))]_vars

\* the loaded Document after its archived project was deleted: the other
\* project is there with its entry
C10_Witness ==
    /\ ~confirmOpen
    /\ 91 \notin ProjectIds(state.projects)
    /\ \E i \in 1..Len(state.projects) :
          state.projects[i].id = 93 /\ Len(state.projects[i].entries) = 1

---------------------------------------------------------------------------
(* Claims: the entry editors *)

\* C11. setHoursForDate is upsert-or-delete: a calendar write of 0 hours for
\* a date the selected project has an entry for leaves the project without
\* an entry for that date; and a calendar write of h > 0 hours for a date
\* the project has no entry for adds exactly one entry, so that the project
\* holds exactly one entry for the date, with hours h.
C11_SetHoursUpsertOrDelete ==
    [][(HandleSave /\ isFinite(Number(draftHours))) =>
          LET d == editingDate[1]
              before == activeProject[1].entries
              after == ProjectsById(state'.projects, activeProject[1].id)[1].entries
              h == Number(draftHours)[1]
          IN /\ (EntriesOn(before, d) # << >> /\ h = 0)
                    => EntriesOn(after, d) = << >>
             /\ (EntriesOn(before, d) = << >> /\ h > 0)
                    => /\ Len(EntriesOn(after, d)) = 1
                       /\ EntriesOn(after, d)[1].hours = h
                       /\ Len(after) = Len(before) + 1]_vars

\* C12. A calendar write whose hours value is zero or not a number deletes
\* the entry: after a save of such a value for a date the selected project
\* had an entry for, the project has no entry for that date.
C12_ZeroOrNonNumericDeletes ==
    [][(/\ HandleSave
        /\ EntriesOn(activeProject[1].entries, editingDate[1]) # << >>
        /\ \/ ~isFinite(Number(draftHours))
           \/ Number(draftHours) = <<0>>)
       => EntriesOn(ProjectsById(state'.projects, activeProject[1].id)[1].entries,
                    editingDate[1]) = << >>]_vars

---------------------------------------------------------------------------
(* Claims: totals *)

\* C13: negative hours never appear in totals: the per-project hours, the
\* total hours and the total earned are what they would be if every entry
\* with negative hours counted 0 (that is, were not there).
C13_NegativeHoursCountZero ==
    LET counted(entries) == SelectSeq(entries, LAMBDA entry : entry.hours >= 0)
        shown == activeProjects(state.projects)
        cleaned == [i \in 1..Len(shown) |->
                      [shown[i] EXCEPT !.entries = counted(shown[i].entries)]]
    IN /\ \A i \in 1..Len(shown) :
             getProjectHours(shown[i].entries)
                 = getProjectHours(counted(shown[i].entries))
       /\ totals.totalHours = totalHoursOf(cleaned)
       /\ totals.earned = earnedOf(cleaned)

\* C14: the hours sum is filter-monotonic: for every project, the sum over
\* today is at most the sum over this week, which is at most the sum over
\* all time.
C14_SumIsFilterMonotonic ==
    \A i \in 1..Len(state.projects) :
        LET entries == state.projects[i].entries
        IN /\ projectHoursOf("today", entries) <= projectHoursOf("week", entries)
           /\ projectHoursOf("week", entries) <= projectHoursOf("all", entries)

---------------------------------------------------------------------------
(* Claims: the calendar *)

\* C16: a calendar cell shows the sum of the hours of all the entries of the
\* selected project that carry the cell's date, also when several do.
C16_CellShowsSumOfDate ==
    \A dateKey \in CalendarDates :
        (activeProject # << >>
            /\ EntriesOn(activeProject[1].entries, dateKey) # << >>)
        => entryByDate(activeProject[1].entries, dateKey)
               = <<sumHours(EntriesOn(activeProject[1].entries, dateKey))>>

---------------------------------------------------------------------------
(* Claims: rates *)

\* C15: the rate fallback is resolved at read time: a project whose rate was
\* never set explicitly (made by addProject, or loaded without a rate) has
\* the current Profile.rate as its effective rate in every later state.
C15_FallbackRateReadAtReadTime ==
    \A i \in 1..Len(state.projects) :
        state.projects[i].id \in fallbackRate
            => getProjectRate(state.projects[i]) = state.profile.rate

---------------------------------------------------------------------------
(* Claims: CSV export *)

\* C17: the exported file is the header row followed by exactly one row per
\* (project, entry) pair whose project is selected and whose date lies in
\* the inclusive range (an empty bound is unbounded), in project order and
\* then entry order, and it has no other row.
C17_ExportRowsAreTheFilteredPairs ==
    [][\A ids \in SUBSET ProjectIds(state.projects), start, end \in ExportDates :
          ApplyExport(ids, [start |-> start, end |-> end]) =>
             LET lines == download'[1].csv
                 pairs == {pair \in (1..Len(state.projects)) \X (1..MaxEntries) :
                             /\ pair[2] <= Len(state.projects[pair[1]].entries)
                             /\ state.projects[pair[1]].id \in ids
                             /\ LET date == state.projects[pair[1]].entries[pair[2]].date
                                IN /\ (start = NoDate \/ date >= start)
                                   /\ (end = NoDate \/ date <= end)}
                 before(a, b) == a[1] < b[1] \/ (a[1] = b[1] /\ a[2] < b[2])
                 rank(pair) == Cardinality({other \in pairs : before(other, pair)})
             IN /\ Len(lines) = 1 + Cardinality(pairs)
                /\ lines[1] = CsvHeader
                /\ \A pair \in pairs :
                      /\ lines[2 + rank(pair)][1] = state.projects[pair[1]].name
                      /\ lines[2 + rank(pair)][2]
                            = state.projects[pair[1]].entries[pair[2]].date
                      /\ lines[2 + rank(pair)][3]
                            = state.projects[pair[1]].entries[pair[2]].hours]_vars

\* an export of two rows or more under a range with a bound, which left an
\* entry of the Document out
C17_Witness ==
    /\ download # << >>
    /\ Len(download[1].csv) >= 3
    /\ download[1].filename.start # << >>
    /\ \E i \in 1..Len(state.projects) :
          \E k \in 1..Len(state.projects[i].entries) :
             state.projects[i].entries[k].date < download[1].filename.start[1]

---------------------------------------------------------------------------
(* Claims: sessions *)

\* C18: no PUT /state is issued before a GET /state of the session has
\* completed successfully: whenever the save timer fires and sends the PUT,
\* the load of the current session has resolved.
C18_NoPutBeforeSessionLoad ==
    [][SaveTimeoutFires => sessionLoaded]_vars

\* C19: edits made while the load is in flight are not lost: when the first
\* successful GET /state completes with a non-null state, every project the
\* user added on this page is still in the Document, or in the store,
\* afterwards.
C19_EditsDuringLoadKept ==
    [][\A i \in LoadSlots :
          (LoadResolved(i) /\ loads[i].active /\ loads[i].data # << >> /\ ~hasLoaded)
          => \A k \in 1..Len(state.projects) :
                state.projects[k].id \in FirstFreeId..(nextId - 1)
                => \/ ProjectsById(state'.projects, state.projects[k].id) # << >>
                   \/ /\ store' # << >>
                      /\ ProjectsById(store'[1].projects, state.projects[k].id)
                             # << >>]_vars

\* C20: a mutation made in an authenticated, loaded session is not dropped
\* by a log-out before the debounce delay has elapsed: at a log-out with a
\* pending write of a Document that the store does not hold, the write is
\* sent, or is still scheduled with that Document.
C20_LogoutKeepsPendingWrite ==
    [][(/\ Logout
        /\ sessionLoaded
        /\ edited
        /\ saveTimeout # << >>
        /\ store # <<state>>)
       => \/ /\ saveTimeout' # << >>
             /\ saveTimeout'[1].body = state
          \/ \E i \in PutSlots :
                /\ puts'[i].st = "sent"
                /\ puts'[i].body = <<state>>
                /\ puts[i].st = "free"]_vars

\* C21: after a save of h hours through the calendar editor, the cell of the
\* date shows exactly h when h > 0 and shows no hours when h <= 0, also when
\* the project holds several entries with the date.
C21_CellShowsWhatWasSaved ==
    [][(HandleSave /\ isFinite(Number(draftHours))) =>
          LET h == Number(draftHours)[1]
              after == ProjectsById(state'.projects, activeProject[1].id)[1].entries
              shown == entryByDate(after, editingDate[1])
          IN IF h > 0 THEN shown = <<h>>
             ELSE shown = << >> \/ shown = <<0>>]_vars

---------------------------------------------------------------------------
(* Claims: the lockout across reloads *)

\* C22: a lockout survives a reload or remount of the login screen: from a
\* lockout with timestamp until, every submission made before until is
\* rejected and leaves the gate unauthenticated, a reload before until
\* starts the screen with that until, and the stored lock is removed only
\* by a successful log-in.
C22_LockoutSurvivesReload ==
    [][/\ \A u \in Usernames, p \in Passwords :
            (Submit(u, p) /\ lastLock # 0 /\ now < lastLock)
            => /\ ~isAuthed'
               /\ gateEvent' = "rejected"
               /\ lockStored' = <<lastLock>>
       /\ (Reload /\ lastLock # 0 /\ now < lastLock)
            => /\ ~isAuthed'
               /\ lockUntil' = lastLock
               /\ lockStored' = <<lastLock>>
       /\ (lockStored # << >> /\ lockStored' = << >>)
            => /\ ~isAuthed
               /\ isAuthed'
               /\ gateEvent' = "authenticated"]_vars

\* the page was reloaded during a lockout and the new login screen is locked
\* until the stored timestamp
C22_Witness ==
    /\ gateEvent = "reload"
    /\ ~isAuthed
    /\ lastLock # 0
    /\ now < lastLock
    /\ now > lastLock - LockMs
    /\ lockUntil = lastLock
    /\ lockStored = <<lastLock>>

---------------------------------------------------------------------------
(* Claims: the calendar grid *)

\* C23: in both calendar modes every rendered day cell sits in the grid
\* column whose header label is the weekday of the cell's date.
C23_CellUnderItsWeekday ==
    activeProject # << >> =>
        \A index \in 1..Len(gridCells) :
            gridCells[index] # << >> =>
                weekDays[gridColumn(Len(weekDays) + index)]
                    = weekDays[getDay(gridCells[index][1]) + 1]

\* the month grid alone: after the leading placeholders every day of the
\* month sits under its weekday
MonthCellsUnderTheirWeekday ==
    (activeProject # << >> /\ mode = "month") =>
        \A index \in 1..Len(gridCells) :
            gridCells[index] # << >> =>
                weekDays[gridColumn(Len(weekDays) + index)]
                    = weekDays[getDay(gridCells[index][1]) + 1]

=============================================================================
